---- MODULE Spec2Model ----
(***************************************************************************)
(* AgentX: the Agent contract (contracts/Agent.sol), the AgentFactory      *)
(* registry (contracts/AgentFactory.sol) and the off-chain helpers that    *)
(* call them (utils/AgentXUtils.js, api/server.js), and the executor that  *)
(* runs the agents (executor/index.js).                                    *)
(*                                                                         *)
(* A contract call is an operator from the contract's storage, msg.sender, *)
(* the arguments and block.timestamp to a result [ok, err, st, ret]: a     *)
(* revert keeps the storage and carries the revert reason.                 *)
(***************************************************************************)
EXTENDS Integers, Sequences, FiniteSets, TLC

\* ------------------------------------------------------------------ bounds
\* uint256 is modelled at a reduced width; checked arithmetic (solidity
\* ^0.8) reverts with Panic(0x11) when a result leaves 0..MAX_UINT.
UintBits == 4
\* number of agents the registry specification creates
MaxAgents == 3
\* block.timestamp runs over 1..MaxTime
MaxTime == 2
\* storeResponse is issued while executionCount < MaxExec
MaxExec == 2

MAX_UINT == (2 ^ UintBits) - 1

\* --------------------------------------------------------------- identities
ZERO == "0x0"
FACTORY == "factory"
WALLET == "wallet"
Users == {"alice", WALLET}
\* msg.sender of a transaction is any non-zero address
Callers == Users \cup {FACTORY}
Addresses == Callers \cup {ZERO}

\* ------------------------------------------------------------------ strings
\* A goal is a sequence of characters, so that trimming is computed.
\* The goals "", "  " and " g": empty, blank, and one that trims to "g".
Goals == {<<>>, <<" ", " ">>, <<" ", "g">>}
Responses == {"r1", "r2"}
Keys == {"", "k1"}
Values == {"v1", "v2"}

RECURSIVE TrimStart(_)
TrimStart(s) == IF s # <<>> /\ Head(s) = " " THEN TrimStart(Tail(s)) ELSE s

RECURSIVE TrimEnd(_)
TrimEnd(s) ==
    IF s # <<>> /\ s[Len(s)] = " " THEN TrimEnd(SubSeq(s, 1, Len(s) - 1)) ELSE s

\* String.prototype.trim
Trim(s) == TrimEnd(TrimStart(s))

\* ----------------------------------------------------------- call results
Ok(st, ret) == [ok |-> TRUE, err |-> "", st |-> st, ret |-> ret]
Revert(st, reason) == [ok |-> FALSE, err |-> reason, st |-> st, ret |-> <<>>]

\* A solidity mapping(string => uint256): absent keys read as 0.
MapGet(m, k) == IF k \in DOMAIN m THEN m[k] ELSE 0
MapSet(m, k, v) == [x \in (DOMAIN m) \cup {k} |-> IF x = k THEN v ELSE m[x]]
EmptyMap == [x \in {} |-> 0]

\* ------------------------------------------------------------ Agent.sol
onlyOwner(self, sender) == sender = self.owner

onlyOwnerOrFactory(self, sender) == sender = self.owner \/ sender = self.factory

Agent_ownerIsSender(sender, _owner, _goal, ts) ==
    [ owner             |-> sender,
      factory           |-> sender,
      goal              |-> _goal,
      lastResponse      |-> "",
      lastExecutionTime |-> ts,
      executionCount    |-> 0,
      isActive          |-> TRUE,
      memories          |-> <<>>,
      memoryIndex       |-> EmptyMap ]

Agent(sender, _owner, _goal, ts) ==
    [ owner             |-> _owner,
      factory           |-> sender,
      goal              |-> _goal,
      lastResponse      |-> "",
      lastExecutionTime |-> ts,
      executionCount    |-> 0,
      isActive          |-> TRUE,
      memories          |-> <<>>,
      memoryIndex       |-> EmptyMap ]

updateGoal_ownerOrFactory(self, sender, _newGoal) ==
    IF ~onlyOwnerOrFactory(self, sender)
    THEN Revert(self, "Only owner can call this function")
    ELSE Ok([self EXCEPT !.goal = _newGoal], <<>>)

updateGoal(self, sender, _newGoal) ==
    IF ~onlyOwner(self, sender)
    THEN Revert(self, "Only owner can call this function")
    ELSE Ok([self EXCEPT !.goal = _newGoal], <<>>)

storeResponse_anySender(self, sender, _response, ts) ==
    IF self.executionCount + 1 > MAX_UINT
    THEN Revert(self, "Panic(0x11)")
    ELSE Ok([self EXCEPT !.lastResponse = _response,
                         !.lastExecutionTime = ts,
                         !.executionCount = @ + 1], <<>>)

storeResponse_noCount(self, sender, _response, ts) ==
    IF ~onlyOwnerOrFactory(self, sender)
    THEN Revert(self, "Only owner or factory can call this function")
    ELSE Ok([self EXCEPT !.lastResponse = _response,
                         !.lastExecutionTime = ts], <<>>)

storeResponse_clearsMemories(self, sender, _response, ts) ==
    IF ~onlyOwnerOrFactory(self, sender)
    THEN Revert(self, "Only owner or factory can call this function")
    ELSE Ok([self EXCEPT !.lastResponse = _response,
                         !.lastExecutionTime = ts,
                         !.executionCount = @ + 1,
                         !.memories = <<>>,
                         !.memoryIndex = EmptyMap], <<>>)

storeResponse(self, sender, _response, ts) ==
    IF ~onlyOwnerOrFactory(self, sender)
    THEN Revert(self, "Only owner or factory can call this function")
    ELSE IF self.executionCount + 1 > MAX_UINT
    THEN Revert(self, "Panic(0x11)")
    ELSE Ok([self EXCEPT !.lastResponse = _response,
                         !.lastExecutionTime = ts,
                         !.executionCount = @ + 1], <<>>)

\* The for loop of storeMemory: the first position holding _key, 0 if none.
FindKey(mems, _key) ==
    LET hits == {i \in 1..Len(mems) : mems[i].key = _key}
    IN  IF hits = {} THEN 0 ELSE CHOOSE i \in hits : \A j \in hits : i <= j

Push_leavesIndex(self, _key, _value, ts) ==
    LET mems == Append(self.memories, [key |-> _key, value |-> _value, timestamp |-> ts])
    IN  [self EXCEPT !.memories = mems]

Push(self, _key, _value, ts) ==
    LET mems == Append(self.memories, [key |-> _key, value |-> _value, timestamp |-> ts])
    IN  [self EXCEPT !.memories = mems,
                     !.memoryIndex = MapSet(@, _key, Len(mems))]

SetSlot(self, pos, _value, ts) ==
    [self EXCEPT !.memories[pos].value = _value,
                 !.memories[pos].timestamp = ts]

storeMemory_alwaysPush(self, sender, _key, _value, ts) ==
    IF ~onlyOwnerOrFactory(self, sender)
    THEN Revert(self, "Only owner or factory can call this function")
    ELSE Ok(Push(self, _key, _value, ts), <<>>)

storeMemory_moveToEnd(self, sender, _key, _value, ts) ==
    IF ~onlyOwnerOrFactory(self, sender)
    THEN Revert(self, "Only owner or factory can call this function")
    ELSE LET kept == SelectSeq(self.memories, LAMBDA m : m.key # _key)
             mems == Append(kept, [key |-> _key, value |-> _value, timestamp |-> ts])
         IN  Ok([self EXCEPT !.memories = mems,
                             !.memoryIndex = [k \in {mems[i].key : i \in 1..Len(mems)} |->
                                 CHOOSE i \in 1..Len(mems) : mems[i].key = k]], <<>>)

storeMemory(self, sender, _key, _value, ts) ==
    IF ~onlyOwnerOrFactory(self, sender)
    THEN Revert(self, "Only owner or factory can call this function")
    ELSE LET index == MapGet(self.memoryIndex, _key)
         IN  IF index = 0 /\ Len(self.memories) > 0
             THEN LET found == FindKey(self.memories, _key)
                  IN  IF found # 0
                      THEN Ok(SetSlot(self, found, _value, ts), <<>>)
                      ELSE Ok(Push(self, _key, _value, ts), <<>>)
             ELSE IF index > 0
             THEN Ok(SetSlot(self, index, _value, ts), <<>>)
             ELSE Ok(Push(self, _key, _value, ts), <<>>)

setActive_toggle(self, sender, _active) ==
    IF ~onlyOwner(self, sender)
    THEN Revert(self, "Only owner can call this function")
    ELSE Ok([self EXCEPT !.isActive = ~@], <<>>)

setActive_resetsCount(self, sender, _active) ==
    IF ~onlyOwner(self, sender)
    THEN Revert(self, "Only owner can call this function")
    ELSE Ok([self EXCEPT !.isActive = _active, !.executionCount = 0], <<>>)

setActive(self, sender, _active) ==
    IF ~onlyOwner(self, sender)
    THEN Revert(self, "Only owner can call this function")
    ELSE Ok([self EXCEPT !.isActive = _active], <<>>)

transferOwnership_keepsOwner(self, sender, _newOwner) ==
    IF ~onlyOwner(self, sender)
    THEN Revert(self, "Only owner can call this function")
    ELSE IF _newOwner = ZERO
    THEN Revert(self, "New owner cannot be zero address")
    ELSE Ok(self, <<>>)

transferOwnership_noZeroCheck(self, sender, _newOwner) ==
    IF ~onlyOwner(self, sender)
    THEN Revert(self, "Only owner can call this function")
    ELSE Ok([self EXCEPT !.owner = _newOwner], <<>>)

transferOwnership(self, sender, _newOwner) ==
    IF ~onlyOwner(self, sender)
    THEN Revert(self, "Only owner can call this function")
    ELSE IF _newOwner = ZERO
    THEN Revert(self, "New owner cannot be zero address")
    ELSE Ok([self EXCEPT !.owner = _newOwner], <<>>)

\* The view getAgentInfo(): the tuple it returns, by the names of its outputs.
getAgentInfo(self) ==
    Ok(self, [ agentOwner     |-> self.owner,
               currentGoal    |-> self.goal,
               latestResponse |-> self.lastResponse,
               lastExecution  |-> self.lastExecutionTime,
               execCount      |-> self.executionCount,
               active         |-> self.isActive,
               memoryCount    |-> Len(self.memories) ])

\* The view getAllMemories().
getAllMemories(self) == Ok(self, self.memories)

\* ------------------------------------------------------ AgentFactory.sol
\* Storage of a freshly deployed AgentFactory.
AgentFactory ==
    [ agents     |-> <<>>,
      userAgents |-> [u \in Addresses |-> <<>>],
      isAgent    |-> {} ]

\* The address of the next contract the factory deploys: addresses are
\* opaque and never reused; the model numbers them in creation order.
NewAddress(f) == Len(f.agents) + 1

createAgent_prepend(f, sender, _goal, ts) ==
    LET agentAddress == NewAddress(f)
        newAgent     == Agent(FACTORY, sender, _goal, ts)
    IN  Ok([f EXCEPT !.agents = <<agentAddress>> \o @,
                     !.userAgents[sender] = Append(@, agentAddress),
                     !.isAgent = @ \cup {agentAddress}],
           [address |-> agentAddress, deployed |-> newAgent])

createAgent(f, sender, _goal, ts) ==
    LET agentAddress == NewAddress(f)
        newAgent     == Agent(FACTORY, sender, _goal, ts)
    IN  Ok([f EXCEPT !.agents = Append(@, agentAddress),
                     !.userAgents[sender] = Append(@, agentAddress),
                     !.isAgent = @ \cup {agentAddress}],
           [address |-> agentAddress, deployed |-> newAgent])

getUserAgents(f, user) == Ok(f, f.userAgents[user])

getAgentCount(f) == Ok(f, Len(f.agents))

getAgents(f, offset, limit) ==
    IF ~(offset < Len(f.agents))
    THEN Revert(f, "Offset out of bounds")
    ELSE IF offset + limit > MAX_UINT
    THEN Revert(f, "Panic(0x11)")
    ELSE LET sum == offset + limit
             end == IF sum > Len(f.agents) THEN Len(f.agents) ELSE sum
         IN  Ok(f, SubSeq(f.agents, offset + 1, end))

\* ------------------------------------------------------------ JavaScript
\* s.startsWith(p).
startsWith(s, p) == Len(s) >= Len(p) /\ SubSeq(s, 1, Len(p)) = p

\* s.indexOf(p) counted from 1; 0 when p does not occur in s.
RECURSIVE indexOf(_, _, _)
indexOf(s, p, from) ==
    IF from + Len(p) - 1 > Len(s) THEN 0
    ELSE IF SubSeq(s, from, from + Len(p) - 1) = p THEN from
    ELSE indexOf(s, p, from + 1)

\* s.replace(p, r) with a string pattern: the first occurrence is replaced.
replace(s, p, r) ==
    LET k == indexOf(s, p, 1)
    IN  IF k = 0 THEN s
        ELSE SubSeq(s, 1, k - 1) \o r \o SubSeq(s, k + Len(p), Len(s))

\* s.substring(0, end).
substring_dropsHead(s, end) ==
    IF Len(s) <= end THEN s ELSE SubSeq(s, Len(s) - end + 1, Len(s))

substring(s, end) == IF Len(s) <= end THEN s ELSE SubSeq(s, 1, end)

Pad2(n) == IF n < 10 THEN "0" \o ToString(n) ELSE ToString(n)

\* new Date(1000 * t).toISOString() for an instant t (in seconds) of
\* January 1970, where the model's clock stays.
toISOString(t) ==
    "1970-01-" \o Pad2(1 + t \div 86400) \o "T" \o Pad2((t % 86400) \div 3600)
        \o ":" \o Pad2((t % 3600) \div 60) \o ":" \o Pad2(t % 60) \o ".000Z"

\* Array.prototype.sort with the comparator (a, b) => b.timestamp -
\* a.timestamp: descending by timestamp, and stable.
RECURSIVE insertByTimestamp(_, _)
insertByTimestamp(sorted, m) ==
    IF sorted = <<>> THEN <<m>>
    ELSE IF Head(sorted).timestamp >= m.timestamp
    THEN <<Head(sorted)>> \o insertByTimestamp(Tail(sorted), m)
    ELSE <<m>> \o sorted

RECURSIVE sortByTimestamp(_)
sortByTimestamp(s) ==
    IF s = <<>> THEN <<>>
    ELSE insertByTimestamp(sortByTimestamp(SubSeq(s, 1, Len(s) - 1)), s[Len(s)])

\* s.repeat(n).
RECURSIVE Repeat(_, _)
Repeat(s, n) ==
    IF n = 0 THEN ""
    ELSE LET half == Repeat(s, n \div 2)
         IN  half \o half \o (IF n % 2 = 1 THEN s ELSE "")

\* ------------------------------------------------------ executor/index.js
\* ethers 6 returns a uint256 as a JavaScript BigInt; the other numbers of
\* the executor are JavaScript Numbers (plain integers here).
BigInt(n) == [bigint |-> n]
IsBigInt(x) == DOMAIN x = {"bigint"}

\* Number(x) of a BigInt: its value as a Number (exact below 2^53, which
\* every counter and timestamp of the model is).
Number(x) == x.bigint

\* `${x}` of a BigInt: its decimal digits.
TemplateString(x) == ToString(x.bigint)

\* Math.min(x, y) converts both arguments with ToNumber, which throws a
\* TypeError on a BigInt; y is a Number.
MathMin(x, y) ==
    IF IsBigInt(x)
    THEN Revert(0, "TypeError: Cannot convert a BigInt value to a number")
    ELSE Ok(0, IF x <= y THEN x ELSE y)

\* The page size executeAgents asks for.
PageSize == 100

minInterval == 3600

\* The agentInfo tuple as ethers decodes it.
DecodeAgentInfo(ret) ==
    [ owner         |-> ret.agentOwner,
      goal          |-> ret.currentGoal,
      lastResponse  |-> ret.latestResponse,
      lastExecution |-> BigInt(ret.lastExecution),
      execCount     |-> BigInt(ret.execCount),
      isActive      |-> ret.active,
      memoryCount   |-> BigInt(ret.memoryCount) ]

NoInfo == DecodeAgentInfo(getAgentInfo(Agent(ZERO, ZERO, <<>>, 0)).ret)

IsWaiting_strict(info, currentTime) ==
    LET timeSinceLastExecution == currentTime - Number(info.lastExecution)
    IN  timeSinceLastExecution <= minInterval /\ Number(info.execCount) > 0

\* The test of executeAgent that skips an agent executed too recently.
IsWaiting(info, currentTime) ==
    LET timeSinceLastExecution == currentTime - Number(info.lastExecution)
    IN  timeSinceLastExecution < minInterval /\ Number(info.execCount) > 0

AfterSnapshot_ignoresActive(info, currentTime) ==
    IF IsWaiting(info, currentTime) THEN "waiting" ELSE "execute"

\* What executeAgent does once it holds the snapshot: return because the
\* agent is inactive, return because it was executed too recently, or go on.
AfterSnapshot(info, currentTime) ==
    IF ~info.isActive THEN "inactive"
    ELSE IF IsWaiting(info, currentTime) THEN "waiting"
    ELSE "execute"

\* The number of characters of the response the memory keeps.
MaxValueText == 200

\* The key and the value of the memory executeAgent stores after a commit;
\* date is the instant new Date() gives.
ExecutionKey(execCount) == "execution_" \o TemplateString(execCount)
ExecutionValue(date, response) ==
    toISOString(date) \o ": " \o substring(response, MaxValueText)

\* One call of executeAgents (a tick) or of executeAgent: where it stands,
\* the agents it iterates over, the snapshot and the response it holds, and
\* what it has written to the console.
IdleRun ==
    [pc |-> "idle", agents |-> <<>>, i |-> 0, info |-> NoInfo, response |-> "",
     log |-> <<>>]

\* The runs the model keeps in flight: the cron job starts executeAgents
\* every minute without waiting for the previous call, so two may overlap.
Ticks == {1, 2}

\* The AgentExecutor once startExecutionLoop has been called.
AgentExecutor == [isRunning |-> TRUE, run |-> [t \in Ticks |-> IdleRun]]

\* -------------------------------------------------- utils/AgentXUtils.js
\* The object AgentXUtils.getAgentInfo builds from the two values it read:
\* the agentInfo tuple and the array of memories.
AgentSnapshot(agentAddress, agentInfo, memories) ==
    [ address        |-> agentAddress,
      owner          |-> agentInfo.owner,
      goal           |-> agentInfo.goal,
      lastResponse   |-> agentInfo.lastResponse,
      lastExecution  |-> Number(agentInfo.lastExecution),
      executionCount |-> Number(agentInfo.execCount),
      isActive       |-> agentInfo.isActive,
      memoryCount    |-> Number(agentInfo.memoryCount),
      memories       |-> [k \in 1..Len(memories) |->
                             [key       |-> memories[k].key,
                              value     |-> memories[k].value,
                              timestamp |-> memories[k].timestamp]] ]

\* ----------------------------------------------------- the HTTP server
ExecutionPrefix == "execution_"

\* The entry of the execution history made from one memory.
ExecutionEntry(memory) ==
    [ executionNumber |-> replace(memory.key, ExecutionPrefix, ""),
      result          |-> memory.value,
      timestamp       |-> memory.timestamp,
      date            |-> toISOString(memory.timestamp) ]

executions_unfiltered(agentInfo) ==
    LET sorted == sortByTimestamp(agentInfo.memories)
    IN  [k \in 1..Len(sorted) |-> ExecutionEntry(sorted[k])]

\* The executions array of GET /api/agents/:address/executions.
executions(agentInfo) ==
    LET kept   == SelectSeq(agentInfo.memories,
                            LAMBDA memory : startsWith(memory.key, ExecutionPrefix))
        sorted == sortByTimestamp(kept)
    IN  [k \in 1..Len(sorted) |-> ExecutionEntry(sorted[k])]

\* -------------------------------------------------------- monitor/index.js
\* The number of data points the history file keeps.
HistoryCap == 1000

\* The limit scanAgents passes to getAllAgents.
ScanLimit == 1000

\* The period of the monitor, in milliseconds.
monitoringInterval == 30000

\* An execution is recent when it is less than this many seconds old.
RecentWindow == 3600

saveMonitoringData_keepsOldest(historicalData, data) ==
    LET pushed == Append(historicalData, data)
    IN  IF Len(pushed) > HistoryCap THEN SubSeq(pushed, 1, HistoryCap) ELSE pushed

\* saveMonitoringData(data): the content of the history file after it, from
\* the content before it (the file is read and written back in one
\* synchronous stretch).
saveMonitoringData(historicalData, data) ==
    LET pushed == Append(historicalData, data)
    IN  IF Len(pushed) > HistoryCap
        THEN SubSeq(pushed, Len(pushed) - HistoryCap + 1, Len(pushed))
        ELSE pushed

\* The windows of getMonitoringStats, in seconds, and the number of data
\* points its history field keeps.
HourWindow == 3600
DayWindow == 86400
StatsHistory == 24

\* array.reduce((sum, d) => sum + f(d), 0), given the values f(d).
reduce(values) ==
    LET sum[k \in 0..Len(values)] == IF k = 0 THEN 0 ELSE sum[k - 1] + values[k]
    IN  sum[Len(values)]

\* x / y of two Numbers, kept as the fraction it is; a zero denominator
\* stands for NaN (0 / 0) or Infinity.
Divide(x, y) == [num |-> x, den |-> y]

\* The hourly or the daily field of the statistics, from its window.
WindowStats(windowData) ==
    [ dataPoints      |-> Len(windowData),
      avgActiveAgents |-> Divide(reduce([k \in 1..Len(windowData) |->
                                            windowData[k].activeAgents]),
                                 Len(windowData)),
      totalExecutions |-> reduce([k \in 1..Len(windowData) |->
                                     windowData[k].recentExecutions]) ]

getMonitoringStats_windowsBeforeLatest(data) ==
    IF Len(data) = 0 THEN [error |-> "No monitoring data available"]
    ELSE LET latest == data[Len(data)]
         IN  [ current |-> latest,
               hourly  |-> WindowStats(SelectSeq(data,
                               LAMBDA d : d.timestamp < latest.timestamp
                                          /\ d.timestamp > latest.timestamp - HourWindow)),
               daily   |-> WindowStats(SelectSeq(data,
                               LAMBDA d : d.timestamp < latest.timestamp
                                          /\ d.timestamp > latest.timestamp - DayWindow)),
               history |-> SubSeq(data,
                                  IF Len(data) > StatsHistory
                                  THEN Len(data) - StatsHistory + 1 ELSE 1,
                                  Len(data)) ]

\* getMonitoringStats() over the content of the history file (empty when
\* there is no file): the value it returns.
getMonitoringStats(data) ==
    IF Len(data) = 0 THEN [error |-> "No monitoring data available"]
    ELSE LET latest     == data[Len(data)]
             oneHourAgo == latest.timestamp - HourWindow
             oneDayAgo  == latest.timestamp - DayWindow
             hourlyData == SelectSeq(data, LAMBDA d : d.timestamp > oneHourAgo)
             dailyData  == SelectSeq(data, LAMBDA d : d.timestamp > oneDayAgo)
         IN  [ current |-> latest,
               hourly  |-> WindowStats(hourlyData),
               daily   |-> WindowStats(dailyData),
               history |-> SubSeq(data,
                                  IF Len(data) > StatsHistory
                                  THEN Len(data) - StatsHistory + 1 ELSE 1,
                                  Len(data)) ]

\* One call of scanAgents: where it stands, the page it iterates over, its
\* counters, the agents whose check threw (history) and how it ended
\* (history).
IdleScan ==
    [pc |-> "idle", agents |-> <<>>, i |-> 0, totalCount |-> 0, currentTime |-> 0,
     activeAgents |-> 0, totalExecutions |-> 0, recentExecutions |-> 0,
     errors |-> <<>>, outcome |-> "none"]

\* The AgentMonitor after its constructor, with no history file yet; scans
\* and saved count the scans begun and the data points written so far
\* (history).
AgentMonitor ==
    [isRunning |-> FALSE, history |-> <<>>, scans |-> 0, saved |-> 0, scan |-> IdleScan]

\* scanAgents up to its loop: getAllAgents(0, 1000) is read (the limit is
\* cut to the widest uint of the model, which is above every registry size)
\* and the counters are set; a revert of the read is thrown to the outer
\* catch, which ends the scan.
BeginScan(m, f, currentTime) ==
    LET totalCount == getAgentCount(f).ret
        page       == getAgents(f, 0, IF ScanLimit <= MAX_UINT THEN ScanLimit ELSE MAX_UINT)
    IN  [m EXCEPT !.scans = @ + 1, !.scan =
            IF ~page.ok THEN [IdleScan EXCEPT !.outcome = "aborted"]
            ELSE [IdleScan EXCEPT !.pc = "agent", !.agents = page.ret, !.i = 1,
                                  !.totalCount = totalCount,
                                  !.currentTime = currentTime]]

\* The data point a scan saves once its loop is over.
DataPoint(scan) ==
    [ timestamp        |-> scan.currentTime,
      totalAgents      |-> scan.totalCount,
      activeAgents     |-> scan.activeAgents,
      totalExecutions  |-> scan.totalExecutions,
      recentExecutions |-> scan.recentExecutions ]

\* The end of scanAgents: the data point is saved.
EndScan(m, scan) ==
    [m EXCEPT !.history = saveMonitoringData(m.history, DataPoint(scan)),
              !.saved   = @ + 1,
              !.scan    = [scan EXCEPT !.pc = "idle", !.outcome = "saved"]]

\* The counters after an agent whose snapshot was read.
Counted(scan, agentInfo) ==
    [scan EXCEPT
        !.activeAgents     = IF agentInfo.isActive THEN @ + 1 ELSE @,
        !.totalExecutions  = @ + agentInfo.executionCount,
        !.recentExecutions = IF agentInfo.lastExecution > scan.currentTime - RecentWindow
                             THEN @ + 1 ELSE @]

ScanAgent_errorEndsScan(m, r) ==
    LET scan == m.scan
    IN  IF ~r.ok
        THEN [m EXCEPT !.scan = [scan EXCEPT !.pc = "idle", !.outcome = "aborted",
                                             !.errors = Append(@, scan.agents[scan.i])]]
        ELSE IF scan.i < Len(scan.agents)
        THEN [m EXCEPT !.scan = [Counted(scan, r.ret) EXCEPT !.i = @ + 1]]
        ELSE EndScan(m, Counted(scan, r.ret))

\* One turn of the loop of scanAgents for the agent at hand, given the
\* outcome r of utils.getAgentInfo and checkAgentHealth: a snapshot that is
\* counted, or an error that the catch of the loop logs. After the last
\* agent the scan saves its data point.
ScanAgent(m, r) ==
    LET scan    == m.scan
        checked == IF r.ok THEN Counted(scan, r.ret)
                   ELSE [scan EXCEPT !.errors = Append(@, scan.agents[scan.i])]
    IN  IF scan.i < Len(scan.agents)
        THEN [m EXCEPT !.scan = [checked EXCEPT !.i = @ + 1]]
        ELSE EndScan(m, checked)

\* ------------------------------------------------------------------- state
VARIABLES
    agentFactory,   \* storage of the AgentFactory contract
    agent,          \* address -> storage of the Agent contract deployed there
    now,            \* block.timestamp
    pending,        \* AgentXUtils.getAllAgents calls in flight (between their two reads)
    lastOp,         \* history: the last call, its arguments and its outcome
    formerOwners,   \* history: per agent, the senders of its accepted transfers
    lastStore,      \* history: per agent, key -> the last accepted storeMemory
    executor,       \* the AgentExecutor and its calls in flight
    infoRead,       \* AgentXUtils.getAgentInfo calls in flight (between their two reads)
    monitor         \* the AgentMonitor, its history file and its scan in flight

vars == <<agentFactory, agent, now, pending, lastOp, formerOwners, lastStore, executor,
         infoRead, monitor>>

NONE == "none"

\* The arguments of a call, one field per parameter name.
NoArgs ==
    [goal |-> <<>>, response |-> "", key |-> "", value |-> "", active |-> FALSE,
     newOwner |-> NONE, user |-> NONE, offset |-> 0, limit |-> 0]

\* A transaction: a reverted one leaves nothing behind but its revert reason.
Op(name, a, sender, args, r) ==
    [op |-> name, agent |-> a, sender |-> sender,
     args |-> IF r.ok THEN args ELSE NoArgs,
     ok |-> r.ok, err |-> r.err, ret |-> <<>>, totalCount |-> 0, hasMore |-> FALSE]

\* A read keeps its arguments whatever its outcome; ret is what it returned.
OpView(name, args, r) ==
    [op |-> name, agent |-> 0, sender |-> NONE, args |-> args,
     ok |-> r.ok, err |-> r.err, ret |-> r.ret, totalCount |-> 0, hasMore |-> FALSE]

NoOp == OpView("deploy", NoArgs, Ok(0, <<>>))

AgentAddrs == DOMAIN agent

\* --------------------------------------------------------- registry actions
\* A transaction createAgent(_goal) from `sender`.
CreateAgent(sender, _goal) ==
    /\ Len(agentFactory.agents) < MaxAgents
    /\ LET r == createAgent(agentFactory, sender, _goal, now)
       IN  /\ agentFactory' = r.st
           /\ agent' = [a \in AgentAddrs \cup {r.ret.address} |->
                          IF a = r.ret.address THEN r.ret.deployed ELSE agent[a]]
           /\ formerOwners' = [a \in AgentAddrs \cup {r.ret.address} |->
                          IF a = r.ret.address THEN {} ELSE formerOwners[a]]
           /\ lastStore' = [a \in AgentAddrs \cup {r.ret.address} |->
                          IF a = r.ret.address THEN EmptyMap ELSE lastStore[a]]
           /\ lastOp' = Op("createAgent", r.ret.address, sender,
                           [NoArgs EXCEPT !.goal = _goal], r)
    /\ UNCHANGED <<now, pending, executor, infoRead, monitor>>

\* A call getAgents(offset, limit).
GetAgents(offset, limit) ==
    /\ lastOp' = OpView("getAgents", [NoArgs EXCEPT !.offset = offset, !.limit = limit],
                        getAgents(agentFactory, offset, limit))
    /\ UNCHANGED <<agentFactory, agent, now, pending, formerOwners, lastStore, executor, infoRead, monitor>>

\* A call getUserAgents(user).
GetUserAgents(user) ==
    /\ lastOp' = OpView("getUserAgents", [NoArgs EXCEPT !.user = user],
                        getUserAgents(agentFactory, user))
    /\ UNCHANGED <<agentFactory, agent, now, pending, formerOwners, lastStore, executor, infoRead, monitor>>

\* AgentXUtils.getAllAgents, first await: totalCount = getAgentCount().
GetAllAgentsCount(offset, limit) ==
    /\ pending = <<>>
    /\ pending' = <<[offset |-> offset, limit |-> limit,
                     totalCount |-> getAgentCount(agentFactory).ret]>>
    /\ lastOp' = OpView("getAgentCount", NoArgs,
                        [getAgentCount(agentFactory) EXCEPT !.ret = <<@>>])
    /\ UNCHANGED <<agentFactory, agent, now, formerOwners, lastStore, executor, infoRead, monitor>>

\* AgentXUtils.getAllAgents, second await: agents = getAgents(offset, limit);
\* a revert is thrown to the caller, otherwise the page object is returned.
GetAllAgentsPage ==
    /\ pending # <<>>
    /\ LET p == pending[1]
           r == getAgents(agentFactory, p.offset, p.limit)
           v == OpView("getAllAgents",
                       [NoArgs EXCEPT !.offset = p.offset, !.limit = p.limit], r)
       IN  lastOp' = IF r.ok
                     THEN [v EXCEPT !.totalCount = p.totalCount,
                                    !.hasMore = p.offset + Len(r.ret) < p.totalCount]
                     ELSE v
    /\ pending' = <<>>
    /\ UNCHANGED <<agentFactory, agent, now, formerOwners, lastStore, executor, infoRead, monitor>>

\* A later block: block.timestamp never decreases.
AdvanceTime ==
    /\ now < MaxTime
    /\ now' = now + 1
    /\ lastOp' = OpView("block", NoArgs, Ok(0, <<>>))
    /\ UNCHANGED <<agentFactory, agent, pending, formerOwners, lastStore, executor, infoRead, monitor>>

\* ----------------------------------------------------- agent record actions
\* The effect of a call on agent `a` with result r.
Call(name, a, sender, args, r) ==
    /\ agent' = [agent EXCEPT ![a] = r.st]
    /\ lastOp' = Op(name, a, sender, args, r)
    /\ UNCHANGED <<agentFactory, now, pending, executor, infoRead, monitor>>

UpdateGoal(a, sender, _newGoal) ==
    /\ Call("updateGoal", a, sender, [NoArgs EXCEPT !.goal = _newGoal],
            updateGoal(agent[a], sender, _newGoal))
    /\ UNCHANGED <<formerOwners, lastStore, infoRead, monitor>>

\* PUT /api/agents/:address/goal: the handler validates the body, then
\* AgentXUtils.updateAgentGoal sends updateGoal signed by the service wallet.
ApiPutGoal(a, goal) ==
    /\ IF goal = <<>> \/ Trim(goal) = <<>>
       THEN /\ lastOp' = Op("PUT goal", a, WALLET, NoArgs, Revert(0, "Goal is required"))
            /\ UNCHANGED <<agent, agentFactory, now, pending, executor, infoRead, monitor>>
       ELSE Call("updateGoal", a, WALLET, [NoArgs EXCEPT !.goal = goal],
                 updateGoal(agent[a], WALLET, goal))
    /\ UNCHANGED <<formerOwners, lastStore, infoRead, monitor>>

StoreResponse(a, sender, _response) ==
    /\ agent[a].executionCount < MaxExec
    /\ Call("storeResponse", a, sender, [NoArgs EXCEPT !.response = _response],
            storeResponse(agent[a], sender, _response, now))
    /\ UNCHANGED <<formerOwners, lastStore, infoRead, monitor>>

StoreMemory(a, sender, _key, _value) ==
    LET r == storeMemory(agent[a], sender, _key, _value, now)
    IN  /\ Call("storeMemory", a, sender, [NoArgs EXCEPT !.key = _key, !.value = _value], r)
        /\ lastStore' = IF r.ok
                        THEN [lastStore EXCEPT ![a] =
                                 MapSet(@, _key, [value |-> _value, timestamp |-> now])]
                        ELSE lastStore
        /\ UNCHANGED formerOwners

SetActive(a, sender, _active) ==
    /\ Call("setActive", a, sender, [NoArgs EXCEPT !.active = _active],
            setActive(agent[a], sender, _active))
    /\ UNCHANGED <<formerOwners, lastStore, infoRead, monitor>>

TransferOwnership(a, sender, _newOwner) ==
    LET r == transferOwnership(agent[a], sender, _newOwner)
    IN  /\ Call("transferOwnership", a, sender, [NoArgs EXCEPT !.newOwner = _newOwner], r)
        /\ formerOwners' = IF r.ok THEN [formerOwners EXCEPT ![a] = @ \cup {sender}]
                           ELSE formerOwners
        /\ UNCHANGED lastStore

\* --------------------------------------------------------- executor actions
\* A line written to the console about agent a (0: about the tick itself).
Logged(run, a, result, err) ==
    [run EXCEPT !.log = Append(@, [agent |-> a, result |-> result, err |-> err,
                                   info |-> run.info, response |-> run.response])]

\* executeAgent has returned: the for loop of executeAgents goes on to the
\* next agent of the page, or the call is over.
NextAgent(run) ==
    IF run.i < Len(run.agents)
    THEN [run EXCEPT !.pc = "info", !.i = @ + 1, !.info = NoInfo, !.response = ""]
    ELSE [run EXCEPT !.pc = "idle", !.agents = <<>>, !.i = 0,
                     !.info = NoInfo, !.response = ""]

\* executeAgents, called by startExecutionLoop and by the cron job every
\* minute: the agent count is read, and from there to the next await.  With
\* agents in the registry Math.min throws, the outer catch logs the error
\* and the call is over; the page read and the loop follow it in the code.
ExecuteAgents(t) ==
    LET run        == executor.run[t]
        agentCount == BigInt(getAgentCount(agentFactory).ret)
        limit      == MathMin(agentCount, PageSize)
        page       == IF limit.ok THEN getAgents(agentFactory, 0, limit.ret) ELSE limit
        fresh      == [IdleRun EXCEPT !.log = <<>>]
    IN  /\ run.pc = "idle"
        /\ executor' = [executor EXCEPT !.run[t] =
               IF agentCount.bigint = 0
               THEN Logged(fresh, 0, "No agents found", "")
               ELSE IF ~page.ok
               THEN Logged(fresh, 0, "Error in execution loop", page.err)
               ELSE IF page.ret = <<>> THEN fresh
               ELSE [fresh EXCEPT !.pc = "info", !.agents = page.ret, !.i = 1]]
        /\ lastOp' = OpView("executeAgents", NoArgs,
                            IF agentCount.bigint = 0 THEN Ok(0, <<>>)
                            ELSE [page EXCEPT !.ret = <<>>])
        /\ UNCHANGED <<agentFactory, agent, now, pending, formerOwners, lastStore, infoRead, monitor>>

\* executeAgent(agentAddress), called on its own for an agent of the
\* registry.
ExecuteAgent(t, a) ==
    /\ executor.run[t].pc = "idle"
    /\ executor' = [executor EXCEPT !.run[t] =
                       [IdleRun EXCEPT !.pc = "info", !.agents = <<a>>, !.i = 1]]
    /\ lastOp' = OpView("executeAgent", NoArgs, Ok(0, <<>>))
    /\ UNCHANGED <<agentFactory, agent, now, pending, formerOwners, lastStore, infoRead, monitor>>

\* executeAgent, lines 137-160: the snapshot is read, then the activity and
\* the interval are tested against it and against the clock.
ExecGetAgentInfo(t) ==
    LET run   == executor.run[t]
        a     == run.agents[run.i]
        info  == DecodeAgentInfo(getAgentInfo(agent[a]).ret)
        next  == AfterSnapshot(info, now)
        held  == [run EXCEPT !.info = info]
    IN  /\ run.pc = "info"
        /\ executor' = [executor EXCEPT !.run[t] =
               IF next = "execute" THEN [held EXCEPT !.pc = "memories"]
               ELSE NextAgent(Logged(held, a, next, ""))]
        /\ lastOp' = OpView("getAgentInfo", NoArgs, Ok(0, <<>>))
        /\ UNCHANGED <<agentFactory, agent, now, pending, formerOwners, lastStore, infoRead, monitor>>

\* executeAgent, lines 163-180: the memories are read for the prompt.
ExecGetAllMemories(t) ==
    LET run == executor.run[t]
    IN  /\ run.pc = "memories"
        /\ executor' = [executor EXCEPT !.run[t] = [run EXCEPT !.pc = "openai"]]
        /\ lastOp' = OpView("getAllMemories", NoArgs, Ok(0, <<>>))
        /\ UNCHANGED <<agentFactory, agent, now, pending, formerOwners, lastStore, infoRead, monitor>>

\* executeAgent, lines 185-202: the completion arrives with a response, or
\* the call throws and the catch of executeAgent logs the error.
ExecOpenAI(t, completion) ==
    LET run == executor.run[t]
        a   == run.agents[run.i]
    IN  /\ run.pc = "openai"
        /\ executor' = [executor EXCEPT !.run[t] =
               IF completion.ok
               THEN [run EXCEPT !.pc = "storeResponse", !.response = completion.ret]
               ELSE NextAgent(Logged(run, a, "error", completion.err))]
        /\ lastOp' = OpView("openai", NoArgs, [completion EXCEPT !.ret = <<>>])
        /\ UNCHANGED <<agentFactory, agent, now, pending, formerOwners, lastStore, infoRead, monitor>>

\* executeAgent, lines 206-207: storeResponse signed by the executor's
\* wallet, awaited until it is mined; a revert is thrown into the catch.
ExecStoreResponse(t) ==
    LET run == executor.run[t]
        a   == run.agents[run.i]
        r   == storeResponse(agent[a], WALLET, run.response, now)
    IN  /\ run.pc = "storeResponse"
        /\ agent[a].executionCount < MaxExec
        /\ agent' = [agent EXCEPT ![a] = r.st]
        /\ executor' = [executor EXCEPT !.run[t] =
               IF r.ok THEN [run EXCEPT !.pc = "storeMemory"]
               ELSE NextAgent(Logged(run, a, "error", r.err))]
        /\ lastOp' = Op("storeResponse", a, WALLET,
                        [NoArgs EXCEPT !.response = run.response], r)
        /\ UNCHANGED <<agentFactory, now, pending, formerOwners, lastStore, infoRead, monitor>>

ExecStoreMemory_undoesCommit(t) ==
    LET run    == executor.run[t]
        a      == run.agents[run.i]
        _key   == ExecutionKey(run.info.execCount)
        _value == ExecutionValue(now, run.response)
        r      == storeMemory(agent[a], WALLET, _key, _value, now)
    IN  /\ run.pc = "storeMemory"
        /\ agent' = [agent EXCEPT ![a] =
                        IF r.ok THEN r.st
                        ELSE [r.st EXCEPT !.executionCount = Number(run.info.execCount),
                                          !.lastResponse = run.info.lastResponse]]
        /\ lastStore' = IF r.ok
                        THEN [lastStore EXCEPT ![a] =
                                 MapSet(@, _key, [value |-> _value, timestamp |-> now])]
                        ELSE lastStore
        /\ executor' = [executor EXCEPT !.run[t] =
               IF r.ok THEN NextAgent(Logged(run, a, "completed", ""))
               ELSE NextAgent(Logged(run, a, "error", r.err))]
        /\ lastOp' = Op("storeMemory", a, WALLET,
                        [NoArgs EXCEPT !.key = _key, !.value = _value], r)
        /\ UNCHANGED <<agentFactory, now, pending, formerOwners, infoRead, monitor>>

\* executeAgent, lines 210-215: storeMemory signed by the executor's wallet;
\* the transaction is sent and not waited for.
ExecStoreMemory(t) ==
    LET run    == executor.run[t]
        a      == run.agents[run.i]
        _key   == ExecutionKey(run.info.execCount)
        _value == ExecutionValue(now, run.response)
        r      == storeMemory(agent[a], WALLET, _key, _value, now)
    IN  /\ run.pc = "storeMemory"
        /\ agent' = [agent EXCEPT ![a] = r.st]
        /\ lastStore' = IF r.ok
                        THEN [lastStore EXCEPT ![a] =
                                 MapSet(@, _key, [value |-> _value, timestamp |-> now])]
                        ELSE lastStore
        /\ executor' = [executor EXCEPT !.run[t] =
               IF r.ok THEN NextAgent(Logged(run, a, "completed", ""))
               ELSE NextAgent(Logged(run, a, "error", r.err))]
        /\ lastOp' = Op("storeMemory", a, WALLET,
                        [NoArgs EXCEPT !.key = _key, !.value = _value], r)
        /\ UNCHANGED <<agentFactory, now, pending, formerOwners, infoRead, monitor>>

\* The instants the executor specification looks at: the creation of the
\* agents, one second short of minInterval after it, and minInterval after it.
ClockTimes == {1, minInterval, minInterval + 1}

\* Time passes: the clock of the executor and block.timestamp move together.
Elapse ==
    /\ \E t \in ClockTimes : t > now /\ now' = t
    /\ lastOp' = OpView("block", NoArgs, Ok(0, <<>>))
    /\ UNCHANGED <<agentFactory, agent, pending, formerOwners, lastStore, executor, infoRead, monitor>>

\* stop(): the flag is cleared; the cron job, a local of
\* startExecutionLoop, is out of its reach.
ExecutorStop ==
    /\ executor.isRunning
    /\ executor' = [executor EXCEPT !.isRunning = FALSE]
    /\ lastOp' = OpView("stop", NoArgs, Ok(0, <<>>))
    /\ UNCHANGED <<agentFactory, agent, now, pending, formerOwners, lastStore,
                   infoRead, monitor>>

\* An awaited call of executeAgent never settles: the OpenAI request
\* (line 185) or the wait for the commit to be mined (line 206). No timer
\* races the await, so the run stays where it is.
ExecCallHangs(t) ==
    /\ executor.run[t].pc \in {"openai", "storeResponse"}
    /\ executor' = [executor EXCEPT !.run[t].pc = "blocked"]
    /\ lastOp' = OpView("await", NoArgs, Ok(0, <<>>))
    /\ UNCHANGED <<agentFactory, agent, now, pending, formerOwners, lastStore,
                   infoRead, monitor>>

\* ----------------------------------------------------- AgentXUtils actions
\* Who awaits AgentXUtils.getAgentInfo: a caller that takes the snapshot as
\* it is, or the route GET /api/agents/:address/executions.
SnapshotCallers == {"getAgent", "executions"}

\* AgentXUtils.getAgentInfo(a), first await: the agentInfo tuple is read.
UtilsGetAgentInfo(a, caller) ==
    /\ infoRead = <<>>
    /\ infoRead' = <<[address |-> a, caller |-> caller,
                      agentInfo |-> DecodeAgentInfo(getAgentInfo(agent[a]).ret)]>>
    /\ lastOp' = OpView("getAgentInfo", NoArgs, Ok(0, <<>>))
    /\ UNCHANGED <<agentFactory, agent, now, pending, formerOwners, lastStore, executor, monitor>>

\* AgentXUtils.getAgentInfo, second await: the memories are read and the
\* snapshot is returned; the executions route answers with the execution
\* history it derives from the snapshot.
UtilsGetAllMemories ==
    /\ infoRead # <<>>
    /\ LET p        == infoRead[1]
           snapshot == AgentSnapshot(p.address, p.agentInfo,
                                     getAllMemories(agent[p.address]).ret)
       IN  lastOp' = IF p.caller = "executions"
                     THEN [OpView("executions", NoArgs, Ok(0, executions(snapshot)))
                              EXCEPT !.agent = p.address]
                     ELSE [OpView("AgentXUtils.getAgentInfo", NoArgs, Ok(0, <<snapshot>>))
                              EXCEPT !.agent = p.address]
    /\ infoRead' = <<>>
    /\ UNCHANGED <<agentFactory, agent, now, pending, formerOwners, lastStore, executor, monitor>>

\* --------------------------------------------------------- monitor actions
\* start(): the monitor runs and makes its initial scan.
MonitorStart ==
    /\ ~monitor.isRunning
    /\ monitor' = BeginScan([monitor EXCEPT !.isRunning = TRUE], agentFactory, now)
    /\ lastOp' = OpView("scanAgents", NoArgs, Ok(0, <<>>))
    /\ UNCHANGED <<agentFactory, agent, now, pending, formerOwners, lastStore, executor, infoRead>>

\* The callback of setInterval: monitoringInterval after the previous scan
\* began (a scan is over well within the interval), the next one begins.
\* At most maxScans data points are taken.
MonitorTick(maxScans) ==
    /\ monitor.isRunning
    /\ monitor.scan.pc = "idle"
    /\ monitor.scans < maxScans
    /\ now' = now + monitoringInterval \div 1000
    /\ monitor' = BeginScan(monitor, agentFactory, now')
    /\ lastOp' = OpView("scanAgents", NoArgs, Ok(0, <<>>))
    /\ UNCHANGED <<agentFactory, agent, pending, formerOwners, lastStore, executor, infoRead>>

\* One turn of the loop of scanAgents: utils.getAgentInfo and
\* checkAgentHealth (which only writes to the log) for the agent at hand
\* either give its snapshot or throw.
MonitorScanAgent(throws) ==
    /\ monitor.scan.pc = "agent"
    /\ LET a == monitor.scan.agents[monitor.scan.i]
           snapshot == AgentSnapshot(a, DecodeAgentInfo(getAgentInfo(agent[a]).ret),
                                     getAllMemories(agent[a]).ret)
           r == IF throws THEN Revert(0, "could not read the agent") ELSE Ok(0, snapshot)
       IN  /\ monitor' = ScanAgent(monitor, r)
           /\ lastOp' = [OpView("checkAgent", NoArgs, [r EXCEPT !.ret = <<>>])
                            EXCEPT !.agent = a]
    /\ UNCHANGED <<agentFactory, agent, now, pending, formerOwners, lastStore, executor, infoRead>>

\* A call of getMonitoringStats().
GetMonitoringStats ==
    /\ lastOp' = OpView("getMonitoringStats", NoArgs,
                        Ok(0, <<getMonitoringStats(monitor.history)>>))
    /\ UNCHANGED <<agentFactory, agent, now, pending, formerOwners, lastStore, executor,
                   infoRead, monitor>>

\* ------------------------------------------------------------ specifications
\* The registry: a freshly deployed AgentFactory, agents created through it
\* and the paginated reads.
\* Arguments of getAgents: around the registry's size, and the largest uints.
UintInputs == (0..(MaxAgents + 1)) \cup {MAX_UINT - 1, MAX_UINT}
\* Arguments of AgentXUtils.getAllAgents (its default is offset 0).
PageOffsets == {0, 1}
PageLimits == {1, MaxAgents}

InitRegistry ==
    /\ agentFactory = AgentFactory
    /\ agent = [a \in {} |-> 0]
    /\ now = 1
    /\ pending = <<>>
    /\ lastOp = NoOp
    /\ formerOwners = [a \in {} |-> {}]
    /\ lastStore = [a \in {} |-> EmptyMap]
    /\ executor = AgentExecutor
    /\ infoRead = <<>>
    /\ monitor = AgentMonitor

NextRegistry ==
    \/ \E sender \in Users : CreateAgent(sender, <<" ", "g">>)
    \/ \E offset \in UintInputs, limit \in UintInputs : GetAgents(offset, limit)
    \/ \E user \in Callers : GetUserAgents(user)
    \/ \E offset \in PageOffsets, limit \in PageLimits : GetAllAgentsCount(offset, limit)
    \/ GetAllAgentsPage

SpecRegistry == InitRegistry /\ [][NextRegistry]_vars

\* The agent record: one agent created through the registry by any user,
\* then every call of its interface from any sender.  G, R, K, V and O are
\* the goals, responses, memory keys, memory values and new owners the
\* calls draw their arguments from.
InitWith(G) ==
    \E sender \in Users, g \in G :
        LET r == createAgent(AgentFactory, sender, g, 1)
        IN  /\ agentFactory = r.st
            /\ agent = [a \in {r.ret.address} |-> r.ret.deployed]
            /\ now = 1
            /\ pending = <<>>
            /\ lastOp = Op("createAgent", r.ret.address, sender, [NoArgs EXCEPT !.goal = g], r)
            /\ formerOwners = [a \in {r.ret.address} |-> {}]
            /\ lastStore = [a \in {r.ret.address} |-> EmptyMap]
            /\ executor = AgentExecutor
            /\ infoRead = <<>>
            /\ monitor = AgentMonitor

Interface(G, R, K, V, O) ==
    \/ \E a \in AgentAddrs, sender \in Callers, g \in G : UpdateGoal(a, sender, g)
    \/ \E a \in AgentAddrs, g \in G : ApiPutGoal(a, g)
    \/ \E a \in AgentAddrs, sender \in Callers, r \in R : StoreResponse(a, sender, r)
    \/ \E a \in AgentAddrs, sender \in Callers, k \in K, v \in V :
           StoreMemory(a, sender, k, v)
    \/ \E a \in AgentAddrs, sender \in Callers, b \in BOOLEAN : SetActive(a, sender, b)
    \/ \E a \in AgentAddrs, sender \in Callers, o \in O : TransferOwnership(a, sender, o)
    \/ AdvanceTime

\* Ownership, goal and activation in full; one response text, one memory.
Init == InitWith(Goals)

Next == Interface(Goals, {"r1"}, {"k1"}, {"v1"}, Addresses)

Spec == Init /\ [][Next]_vars

\* Result commits in full; one goal, one memory.
InitCommit == InitWith({<<" ", "g">>})

NextCommit == Interface({<<" ", "g">>}, Responses, {"k1"}, {"v1"}, {ZERO, FACTORY})

SpecCommit == InitCommit /\ [][NextCommit]_vars

\* The memory set in full; one goal, one response text.
InitMemory == InitWith({<<" ", "g">>})

NextMemory == Interface({<<" ", "g">>}, {"r1"}, Keys, Values, {ZERO, FACTORY})

SpecMemory == InitMemory /\ [][NextMemory]_vars

\* Creation: agents created through the registry with every goal, by every
\* user, in any block.
NextCreate ==
    \/ \E sender \in Users, g \in Goals : CreateAgent(sender, g)
    \/ AdvanceTime

SpecCreate == InitRegistry /\ [][NextCreate]_vars

\* The per-owner index: agents created through the registry, transfers of
\* their ownership, and getUserAgents.
NextOwners ==
    \/ \E sender \in Users : CreateAgent(sender, <<" ", "g">>)
    \/ \E a \in AgentAddrs, sender \in Callers, o \in Users :
           TransferOwnership(a, sender, o)
    \/ \E user \in Callers : GetUserAgents(user)

SpecOwners == InitRegistry /\ [][NextOwners]_vars

\* The executor: a registry that is empty or holds one agent created by
\* alice and one created by the executor's wallet; executeAgents and
\* executeAgent run against it while the owners switch their agents on and
\* off and time passes.
InitExec ==
    \E creators \in {<<>>, <<"alice", WALLET>>} :
        LET r1 == createAgent(AgentFactory, creators[1], <<" ", "g">>, 1)
            r2 == createAgent(r1.st, creators[2], <<" ", "g">>, 1)
        IN  /\ agentFactory = IF creators = <<>> THEN AgentFactory ELSE r2.st
            /\ agent = IF creators = <<>> THEN [a \in {} |-> 0]
                       ELSE [a \in {r1.ret.address, r2.ret.address} |->
                               IF a = r1.ret.address THEN r1.ret.deployed
                               ELSE r2.ret.deployed]
            /\ now = 1
            /\ pending = <<>>
            /\ lastOp = NoOp
            /\ formerOwners = [a \in DOMAIN agent |-> {}]
            /\ lastStore = [a \in DOMAIN agent |-> EmptyMap]
            /\ executor = AgentExecutor
            /\ infoRead = <<>>
            /\ monitor = AgentMonitor

\* What the OpenAI call comes back with: a response text, short or longer
\* than the memory keeps, or an exception.
LongResponse == "a" \o Repeat("b", MaxValueText)

Completions ==
    {Ok(0, r) : r \in {"r1", LongResponse}}
        \cup {[Revert(0, "OpenAI request failed") EXCEPT !.ret = ""]}

\* One run at a time: each call is over before the next one starts.
OneTick == {1}

NextExec ==
    \/ \E t \in OneTick : ExecuteAgents(t)
    \/ \E t \in OneTick, a \in AgentAddrs : ExecuteAgent(t, a)
    \/ \E t \in OneTick : ExecGetAgentInfo(t)
    \/ \E t \in OneTick : ExecGetAllMemories(t)
    \/ \E t \in OneTick, completion \in Completions : ExecOpenAI(t, completion)
    \/ \E t \in OneTick : ExecStoreResponse(t)
    \/ \E t \in OneTick : ExecStoreMemory(t)
    \/ \E a \in AgentAddrs, sender \in Users, b \in BOOLEAN : SetActive(a, sender, b)
    \/ Elapse

SpecExec == InitExec /\ [][NextExec]_vars

\* Snapshots: one agent whose owner stores memories under execution keys
\* and under another key, in any block, while AgentXUtils.getAgentInfo and
\* the executions route read it.
SnapshotKeys == {"execution_0", "execution_1", "k1"}

InitSnapshot == InitWith({<<" ", "g">>})

NextSnapshot ==
    \/ \E a \in AgentAddrs, k \in SnapshotKeys : StoreMemory(a, agent[a].owner, k, "v1")
    \/ \E a \in AgentAddrs, caller \in SnapshotCallers : UtilsGetAgentInfo(a, caller)
    \/ UtilsGetAllMemories
    \/ AdvanceTime

SpecSnapshot == InitSnapshot /\ [][NextSnapshot]_vars

\* A registry of one agent created by alice and one created by the
\* executor's wallet.
InitTwoAgents ==
    /\ InitExec
    /\ agentFactory.agents # <<>>

\* The monitor: it scans the two agents a few times, any check may throw,
\* and the owners switch their agents on and off in between.
MaxScans == 3

NextMonitor ==
    \/ MonitorStart
    \/ MonitorTick(MaxScans)
    \/ \E throws \in BOOLEAN : MonitorScanAgent(throws)
    \/ \E a \in AgentAddrs, b \in BOOLEAN : SetActive(a, agent[a].owner, b)

SpecMonitor == InitTwoAgents /\ [][NextMonitor]_vars

\* The monitor over a registry that may be empty.
SpecScans == InitExec /\ [][NextMonitor]_vars

\* Shutdown: the executor as in SpecExec, and stop() called at any moment.
NextStop ==
    \/ NextExec
    \/ ExecutorStop

SpecStop == InitExec /\ [][NextStop]_vars

\* Calls that never return: one run at a time over the two agents, entered
\* for an agent that can still take a commit, where any awaited call may
\* never settle. The event loop resumes every run whose awaited call has
\* settled.
ExecStep(t) ==
    \/ ExecGetAgentInfo(t)
    \/ ExecGetAllMemories(t)
    \/ \E completion \in Completions : ExecOpenAI(t, completion)
    \/ ExecStoreResponse(t)
    \/ ExecStoreMemory(t)

NextHang ==
    \/ \E t \in OneTick : ExecuteAgents(t)
    \/ \E t \in OneTick, a \in {x \in AgentAddrs : agent[x].executionCount < MaxExec} :
           ExecuteAgent(t, a)
    \/ \E t \in OneTick : ExecStep(t)
    \/ \E t \in OneTick : ExecCallHangs(t)
    \/ Elapse

SpecHang == InitTwoAgents /\ [][NextHang]_vars /\ \A t \in OneTick : WF_vars(ExecStep(t))

\* A memory submit that fails: one run at a time over the two agents while
\* the executor's wallet may hand its agent over to alice at any moment,
\* after which its calls to that agent are rejected.
NextHandOver ==
    \/ \E t \in OneTick, a \in AgentAddrs : ExecuteAgent(t, a)
    \/ \E t \in OneTick : ExecStep(t)
    \/ \E a \in AgentAddrs : TransferOwnership(a, WALLET, "alice")
    \/ Elapse

SpecHandOver == InitTwoAgents /\ [][NextHandOver]_vars

\* Overlapping runs: executeAgent runs for the agents of the executor's
\* wallet, a second one starting before the first is over, while the wallet
\* also commits a response of its own and time passes.
WalletAgents == {a \in AgentAddrs : agent[a].owner = WALLET}

NextOverlap ==
    \/ \E t \in Ticks, a \in WalletAgents : ExecuteAgent(t, a)
    \/ \E t \in Ticks : ExecGetAgentInfo(t)
    \/ \E t \in Ticks : ExecGetAllMemories(t)
    \/ \E t \in Ticks : ExecOpenAI(t, Ok(0, "r1"))
    \/ \E t \in Ticks : ExecStoreResponse(t)
    \/ \E t \in Ticks : ExecStoreMemory(t)
    \/ \E a \in WalletAgents : StoreResponse(a, WALLET, "r2")
    \/ Elapse

SpecOverlap == InitTwoAgents /\ [][NextOverlap]_vars

\* The instant of the n-th scan of a monitor started at time 1 whose scans
\* follow one another at monitoringInterval.
ScanTime(n) == 1 + (n - 1) * (monitoringInterval \div 1000)

\* The data point of the n-th scan over the two agents as they were created.
PastDataPoint(n) ==
    [ timestamp        |-> ScanTime(n),
      totalAgents      |-> 2,
      activeAgents     |-> 2,
      totalExecutions  |-> 0,
      recentExecutions |-> IF 1 > ScanTime(n) - RecentWindow THEN 2 ELSE 0 ]

\* The history file: it outlives the monitor, so a monitor starts on the
\* file its earlier runs left, here the data points of n scans, and starts
\* when the next scan is due; every check succeeds.
InitHistory ==
    \E n \in 0..HistoryCap :
        LET r1 == createAgent(AgentFactory, "alice", <<" ", "g">>, 1)
            r2 == createAgent(r1.st, WALLET, <<" ", "g">>, 1)
        IN  /\ agentFactory = r2.st
            /\ agent = [a \in {r1.ret.address, r2.ret.address} |->
                          IF a = r1.ret.address THEN r1.ret.deployed ELSE r2.ret.deployed]
            /\ now = ScanTime(n + 1)
            /\ pending = <<>>
            /\ lastOp = NoOp
            /\ formerOwners = [a \in DOMAIN agent |-> {}]
            /\ lastStore = [a \in DOMAIN agent |-> EmptyMap]
            /\ executor = AgentExecutor
            /\ infoRead = <<>>
            /\ monitor = [AgentMonitor EXCEPT
                             !.history = [j \in 1..n |-> PastDataPoint(j)],
                             !.saved   = n]

NextHistory ==
    \/ MonitorStart
    \/ MonitorTick(MaxScans)
    \/ MonitorScanAgent(FALSE)

SpecHistory == InitHistory /\ [][NextHistory]_vars

\* Statistics: the history file holds the data points of earlier runs of
\* the monitor, taken seconds, an hour or a day apart (the monitor was down
\* in between), or there is no file; the monitor scans on and the
\* statistics are read at any moment.
StatTimes == {1, HourWindow, HourWindow + 1, DayWindow + 1, DayWindow + HourWindow + 1}
MaxPast == 3

\* The data point of a scan, at instant ts, of the two agents as they were
\* created, switched on or off.
DataPointAt(ts, active) ==
    [ timestamp        |-> ts,
      totalAgents      |-> 2,
      activeAgents     |-> active,
      totalExecutions  |-> 0,
      recentExecutions |-> IF 1 > ts - RecentWindow THEN 2 ELSE 0 ]

PastHistories ==
    UNION {{h \in [1..n -> {DataPointAt(ts, active) : ts \in StatTimes, active \in {0, 2}}] :
              \A j \in 1..(n - 1) : h[j].timestamp < h[j + 1].timestamp} : n \in 0..MaxPast}

InitStats ==
    \E h \in PastHistories :
        LET r1 == createAgent(AgentFactory, "alice", <<" ", "g">>, 1)
            r2 == createAgent(r1.st, WALLET, <<" ", "g">>, 1)
        IN  /\ agentFactory = r2.st
            /\ agent = [a \in {r1.ret.address, r2.ret.address} |->
                          IF a = r1.ret.address THEN r1.ret.deployed ELSE r2.ret.deployed]
            /\ now = IF h = <<>> THEN 1
                     ELSE h[Len(h)].timestamp + monitoringInterval \div 1000
            /\ pending = <<>>
            /\ lastOp = NoOp
            /\ formerOwners = [a \in DOMAIN agent |-> {}]
            /\ lastStore = [a \in DOMAIN agent |-> EmptyMap]
            /\ executor = AgentExecutor
            /\ infoRead = <<>>
            /\ monitor = [AgentMonitor EXCEPT !.history = h, !.saved = Len(h)]

NextStats ==
    \/ MonitorStart
    \/ MonitorTick(MaxScans)
    \/ MonitorScanAgent(FALSE)
    \/ GetMonitoringStats

SpecStats == InitStats /\ [][NextStats]_vars

\* ------------------------------------------------------------------ claims
Min(x, y) == IF x <= y THEN x ELSE y

KeysOf(mems) == {mems[i].key : i \in 1..Len(mems)}

\* The last step was an accepted call `name` on agent a.
Did(name, a) == lastOp.op = name /\ lastOp.ok /\ lastOp.agent = a

\* C1: after any sequence of storeMemory calls the memory sequence holds at
\* most one entry per key, is no longer than the number of distinct keys ever
\* stored, and the entry of each stored key carries the value and timestamp
\* of the most recent storeMemory for that key.
C1_MemoryDedup ==
    \A a \in AgentAddrs :
        LET m == agent[a].memories
        IN  /\ \A i, j \in 1..Len(m) : m[i].key = m[j].key => i = j
            /\ Len(m) <= Cardinality(DOMAIN lastStore[a])
            /\ \A k \in DOMAIN lastStore[a] :
                   \E i \in 1..Len(m) :
                       /\ m[i].key = k
                       /\ m[i].value = lastStore[a][k].value
                       /\ m[i].timestamp = lastStore[a][k].timestamp

\* Two keys are held, and the older one was overwritten after the newer one
\* was inserted.
C1_Witness ==
    \E a \in AgentAddrs :
        /\ Did("storeMemory", a)
        /\ Len(agent[a].memories) = 2
        /\ agent[a].memories[1].timestamp > agent[a].memories[2].timestamp
        /\ agent[a].memories[1].value = "v2"

\* C2: storeMemory for a key already present keeps the number and order of
\* the entries and changes only that entry's value and timestamp; for a key
\* not present it appends one entry and leaves the earlier ones unchanged.
C2_StoreMemoryFrame ==
    [][\A a \in AgentAddrs :
        (lastOp'.op = "storeMemory" /\ lastOp'.ok /\ lastOp'.agent = a) =>
            LET m  == agent[a].memories
                m2 == agent'[a].memories
                k  == lastOp'.args.key
                v  == lastOp'.args.value
            IN  IF k \in KeysOf(m)
                THEN /\ Len(m2) = Len(m)
                     /\ \A i \in 1..Len(m) :
                            /\ m2[i].key = m[i].key
                            /\ m[i].key # k => m2[i] = m[i]
                            /\ m[i].key = k => m2[i].value = v /\ m2[i].timestamp = now
                ELSE m2 = Append(m, [key |-> k, value |-> v, timestamp |-> now])
      ]_vars

\* The first of two entries has just been overwritten in place.
C2_Witness ==
    \E a \in AgentAddrs :
        /\ Did("storeMemory", a)
        /\ Len(agent[a].memories) = 2
        /\ lastOp.args.key = agent[a].memories[1].key
        /\ agent[a].memories[1].timestamp > agent[a].memories[2].timestamp

\* C3: every accepted storeResponse increases executionCount by exactly 1,
\* sets lastResponse to the committed text and leaves lastExecutionTime at or
\* above its previous value; no step of any kind decreases lastExecutionTime.
C3_CommitResult ==
    [][\A a \in AgentAddrs :
        /\ agent'[a].lastExecutionTime >= agent[a].lastExecutionTime
        /\ (lastOp'.op = "storeResponse" /\ lastOp'.ok /\ lastOp'.agent = a) =>
               /\ agent'[a].executionCount = agent[a].executionCount + 1
               /\ agent'[a].lastResponse = lastOp'.args.response
               /\ agent'[a].lastExecutionTime = now
      ]_vars

\* A second commit, in a later block than the agent's creation.
C3_Witness ==
    \E a \in AgentAddrs :
        /\ Did("storeResponse", a)
        /\ agent[a].executionCount = 2
        /\ agent[a].lastExecutionTime > 1

\* C4: storeResponse changes only lastResponse, lastExecutionTime and
\* executionCount: memories, goal, owner and isActive (and the memory index
\* and the factory) are as before.
C4_CommitFrame ==
    [][\A a \in AgentAddrs :
        (lastOp'.op = "storeResponse" /\ lastOp'.agent = a) =>
            /\ agent'[a].memories = agent[a].memories
            /\ agent'[a].memoryIndex = agent[a].memoryIndex
            /\ agent'[a].goal = agent[a].goal
            /\ agent'[a].owner = agent[a].owner
            /\ agent'[a].factory = agent[a].factory
            /\ agent'[a].isActive = agent[a].isActive
      ]_vars

\* A commit on a deactivated agent that holds a memory and whose ownership
\* was transferred.
C4_Witness ==
    \E a \in AgentAddrs :
        /\ Did("storeResponse", a)
        /\ agent[a].memories # <<>>
        /\ ~agent[a].isActive
        /\ formerOwners[a] # {}

\* C5: over a registry of N ids, getAgents(offset, limit) with offset < N
\* returns the min(limit, N - offset) ids at ranks offset, offset+1, ...;
\* with offset >= N and N > 0 it fails with "Offset out of bounds".
C5_ListPage ==
    lastOp.op = "getAgents" =>
        LET N      == Len(agentFactory.agents)
            offset == lastOp.args.offset
            limit  == lastOp.args.limit
        IN  IF offset < N
            THEN /\ lastOp.ok
                 /\ lastOp.ret = SubSeq(agentFactory.agents, offset + 1,
                                        offset + Min(limit, N - offset))
            ELSE N > 0 => ~lastOp.ok /\ lastOp.err = "Offset out of bounds"

\* C6: a page request at offset 0 against a registry with no agents, through
\* getAgents or through AgentXUtils.getAllAgents, returns an empty page and
\* raises no error.
C6_EmptyRegistryPage ==
    ( /\ lastOp.op \in {"getAgents", "getAllAgents"}
      /\ lastOp.args.offset = 0
      /\ Len(agentFactory.agents) = 0 ) => lastOp.ok

\* C7: updateGoal from any sender other than the agent's current owner, the
\* factory included, reverts and leaves every field of the agent unchanged;
\* from the owner it sets goal to the new text.
C7_UpdateGoalOwnerOnly ==
    [][\A a \in AgentAddrs :
        (lastOp'.op = "updateGoal" /\ lastOp'.agent = a) =>
            IF lastOp'.sender # agent[a].owner
            THEN /\ ~lastOp'.ok
                 /\ lastOp'.err = "Only owner can call this function"
                 /\ agent'[a] = agent[a]
            ELSE /\ lastOp'.ok
                 /\ agent'[a] = [agent[a] EXCEPT !.goal = lastOp'.args.goal]
      ]_vars

\* The factory, which is not the owner, has just been refused.
C7_Witness ==
    \E a \in AgentAddrs :
        /\ lastOp.op = "updateGoal" /\ lastOp.agent = a
        /\ ~lastOp.ok
        /\ lastOp.sender = FACTORY
        /\ agent[a].factory = FACTORY
        /\ agent[a].owner # FACTORY

\* C8: no updateGoal whose goal is empty after trimming is accepted, on any
\* path to the agent record.
C8_EmptyGoalRejected ==
    (lastOp.op = "updateGoal" /\ lastOp.ok) => Trim(lastOp.args.goal) # <<>>

OwnerOnlyOps == {"updateGoal", "setActive", "transferOwnership"}

\* C9 as stated: once an identity has transferred the ownership away, every
\* owner-only call it issues from then on fails.
C9_FormerOwnerFailsForever ==
    [][\A a \in AgentAddrs :
        ( /\ lastOp'.op \in OwnerOnlyOps
          /\ lastOp'.agent = a
          /\ lastOp'.sender \in formerOwners[a] ) => ~lastOp'.ok
      ]_vars

\* C9 as amended: an accepted transferOwnership(newOwner) comes from the
\* owner and makes newOwner the owner; the owner changes in no other step;
\* and after a transfer every owner-only call is refused, leaving the agent
\* unchanged, exactly when its sender is not the current owner or it is a
\* transfer to the zero address.
C9_OwnershipTransfer ==
    [][\A a \in AgentAddrs :
        /\ (lastOp'.op = "transferOwnership" /\ lastOp'.ok /\ lastOp'.agent = a) =>
               /\ lastOp'.sender = agent[a].owner
               /\ agent'[a].owner = lastOp'.args.newOwner
        /\ agent'[a].owner # agent[a].owner =>
               lastOp'.op = "transferOwnership" /\ lastOp'.ok /\ lastOp'.agent = a
        /\ ( /\ lastOp'.op \in OwnerOnlyOps
             /\ lastOp'.agent = a
             /\ formerOwners[a] # {} ) =>
               IF lastOp'.sender # agent[a].owner
               THEN ~lastOp'.ok /\ agent'[a] = agent[a]
               ELSE \/ lastOp'.ok
                    \/ /\ lastOp'.op = "transferOwnership"
                       /\ lastOp'.err = "New owner cannot be zero address"
                       /\ agent'[a] = agent[a]
      ]_vars

\* After a transfer to another identity, the former owner has just been
\* refused.
C9_Witness ==
    \E a \in AgentAddrs :
        /\ lastOp.op \in OwnerOnlyOps /\ lastOp.agent = a
        /\ ~lastOp.ok
        /\ lastOp.sender \in formerOwners[a]
        /\ lastOp.sender # agent[a].owner

\* C10: the owner of an agent created through the registry is never the zero
\* address: no accepted transferOwnership names it, and an accepted transfer
\* leaves its argument as the owner.
C10_OwnerNeverZero ==
    /\ \A a \in AgentAddrs : agent[a].owner # ZERO
    /\ lastOp.op = "transferOwnership" /\ lastOp.ok =>
           /\ lastOp.args.newOwner # ZERO
           /\ agent[lastOp.agent].owner = lastOp.args.newOwner

\* The owner's transfer to the zero address has just been refused.
C10_Witness ==
    \E a \in AgentAddrs :
        /\ lastOp.op = "transferOwnership" /\ lastOp.agent = a
        /\ ~lastOp.ok
        /\ lastOp.sender = agent[a].owner
        /\ lastOp.err = "New owner cannot be zero address"

\* C11: storeResponse and storeMemory from a sender that is neither the
\* agent's current owner nor its factory revert and leave lastResponse,
\* executionCount, lastExecutionTime and memories (every field of the agent)
\* unchanged.
C11_ThirdPartyCommitRefused ==
    [][\A a \in AgentAddrs :
        ( /\ lastOp'.op \in {"storeResponse", "storeMemory"}
          /\ lastOp'.agent = a
          /\ lastOp'.sender # agent[a].owner
          /\ lastOp'.sender # agent[a].factory ) =>
            /\ ~lastOp'.ok
            /\ lastOp'.err = "Only owner or factory can call this function"
            /\ agent'[a].lastResponse = agent[a].lastResponse
            /\ agent'[a].executionCount = agent[a].executionCount
            /\ agent'[a].lastExecutionTime = agent[a].lastExecutionTime
            /\ agent'[a].memories = agent[a].memories
            /\ agent'[a] = agent[a]
      ]_vars

\* A third party's storeResponse has just been refused on an agent that
\* holds a committed result and a memory.
C11_Witness ==
    \E a \in AgentAddrs :
        /\ lastOp.op = "storeResponse" /\ lastOp.agent = a
        /\ ~lastOp.ok
        /\ lastOp.sender \notin {agent[a].owner, agent[a].factory}
        /\ agent[a].executionCount > 0
        /\ agent[a].memories # <<>>

\* C13: no storeMemory with an empty key is accepted; it fails and leaves the
\* memory sequence without an entry for the empty key.
C13_EmptyKeyRejected ==
    /\ (lastOp.op = "storeMemory" /\ lastOp.ok) => lastOp.args.key # ""
    /\ \A a \in AgentAddrs : "" \notin KeysOf(agent[a].memories)

\* C14: setActive(b) from a sender other than the owner reverts and leaves
\* the agent unchanged; from the owner it is accepted and changes isActive to
\* b and no other field; setActive(b) applied again to its own result is
\* accepted and gives that same result.
C14_SetActiveIdempotent ==
    [][\A a \in AgentAddrs :
        (lastOp'.op = "setActive" /\ lastOp'.agent = a) =>
            IF lastOp'.sender # agent[a].owner
            THEN /\ ~lastOp'.ok
                 /\ lastOp'.err = "Only owner can call this function"
                 /\ agent'[a] = agent[a]
            ELSE LET b     == lastOp'.args.active
                     again == setActive(agent'[a], lastOp'.sender, b)
                 IN  /\ lastOp'.ok
                     /\ agent'[a].isActive = b
                     /\ agent'[a] = [agent[a] EXCEPT !.isActive = b]
                     /\ agent[a].isActive = b => agent'[a] = agent[a]
                     /\ again.ok /\ again.st = agent'[a]
      ]_vars

\* The owner has deactivated the agent, and a later setActive from another
\* sender has just been refused.
C14_Witness ==
    \E a \in AgentAddrs :
        /\ lastOp.op = "setActive" /\ lastOp.agent = a
        /\ ~lastOp.ok
        /\ lastOp.sender # agent[a].owner
        /\ ~agent[a].isActive

\* The number of positions of sequence s that hold x.
Occurrences(s, x) == Cardinality({i \in 1..Len(s) : s[i] = x})

\* The total of the lengths of the per-owner sequences of the users in S.
RECURSIVE TotalUserAgents(_, _)
TotalUserAgents(f, S) ==
    IF S = {} THEN 0
    ELSE LET u == CHOOSE x \in S : TRUE
         IN  Len(f.userAgents[u]) + TotalUserAgents(f, S \ {u})

\* C15: in every registry state each id of each per-owner sequence occurs
\* exactly once in the flat sequence and the per-owner lengths add up to the
\* flat count; every createAgent appends exactly its new id to the flat
\* sequence, and no step removes or reorders the earlier entries.
C15_RegistrySequences ==
    /\ [](/\ \A u \in Addresses : \A i \in 1..Len(agentFactory.userAgents[u]) :
                Occurrences(agentFactory.agents, agentFactory.userAgents[u][i]) = 1
          /\ TotalUserAgents(agentFactory, Addresses) = Len(agentFactory.agents))
    /\ [][/\ Len(agentFactory'.agents) >= Len(agentFactory.agents)
          /\ SubSeq(agentFactory'.agents, 1, Len(agentFactory.agents)) = agentFactory.agents
          /\ lastOp'.op = "createAgent" =>
                 /\ agentFactory'.agents = Append(agentFactory.agents, lastOp'.agent)
                 /\ lastOp'.agent \notin {agentFactory.agents[i] :
                                             i \in 1..Len(agentFactory.agents)}
          /\ lastOp'.op # "createAgent" => agentFactory'.agents = agentFactory.agents
         ]_vars

\* Both users have created agents, and the third agent has just been created.
C15_Witness ==
    /\ lastOp.op = "createAgent" /\ lastOp.ok
    /\ Len(agentFactory.agents) = 3
    /\ \A u \in Users : agentFactory.userAgents[u] # <<>>

\* C16: an agent just created by createAgent(goal) from caller c has owner c,
\* the given goal, isActive true, executionCount 0, an empty lastResponse and
\* no memories, in storage and as getAgentInfo reports it.
C16_CreatedAgentInitialValues ==
    \A a \in AgentAddrs :
        Did("createAgent", a) =>
            LET info == getAgentInfo(agent[a]).ret
            IN  /\ agent[a].owner = lastOp.sender
                /\ agent[a].goal = lastOp.args.goal
                /\ agent[a].isActive
                /\ agent[a].executionCount = 0
                /\ agent[a].lastResponse = ""
                /\ agent[a].memories = <<>>
                /\ info.agentOwner = lastOp.sender
                /\ info.currentGoal = lastOp.args.goal
                /\ info.latestResponse = ""
                /\ info.execCount = 0
                /\ info.active
                /\ info.memoryCount = 0

\* The second agent has just been created, by a user other than the creator
\* of the first and with a goal other than the first's.
C16_Witness ==
    \E a \in AgentAddrs :
        /\ Did("createAgent", a)
        /\ a = 2
        /\ agent[a].owner # agent[1].owner
        /\ agent[a].goal # agent[1].goal

\* C17: an agent with executionCount = 0 reports lastExecution = 0:
\* lastExecutionTime is non-zero only once a result has been committed.
C17_NeverExecutedReportsZero ==
    \A a \in AgentAddrs :
        agent[a].executionCount = 0 =>
            /\ getAgentInfo(agent[a]).ret.lastExecution = 0
            /\ agent[a].lastExecutionTime = 0

\* C18: getUserAgents(user) returns exactly the agents whose current owner is
\* user, each once, in every state, those after a transferOwnership included.
C18_UserAgentsAreOwned ==
    lastOp.op = "getUserAgents" =>
        /\ lastOp.ok
        /\ {lastOp.ret[i] : i \in 1..Len(lastOp.ret)} =
               {a \in AgentAddrs : agent[a].owner = lastOp.args.user}
        /\ \A i, j \in 1..Len(lastOp.ret) : lastOp.ret[i] = lastOp.ret[j] => i = j

\* The last line a run has logged.
LastLog(run) == run.log[Len(run.log)]

\* C12: the executor commits for agents of any owner: whenever executeAgent
\* has finished with an agent that was active and due, that is owned by
\* someone other than the executor's wallet and for which the reasoning call
\* returned a response, the agent holds a commit made after the snapshot.
C12_ExecutorCommitsForAnyOwner ==
    \A t \in Ticks :
        \A k \in 1..Len(executor.run[t].log) :
            LET e == executor.run[t].log[k]
            IN  ( /\ e.agent # 0
                  /\ e.response # ""
                  /\ e.info.isActive
                  /\ e.info.owner # WALLET ) =>
                    /\ e.result = "completed"
                    /\ agent[e.agent].executionCount > Number(e.info.execCount)
                    /\ agent[e.agent].lastResponse # ""

\* C19: an agent whose snapshot says inactive is handed back at once:
\* executeAgent logs it, moves to the next agent or ends, and leaves the
\* agent untouched; the reasoning call, storeResponse and storeMemory are
\* only ever made under a snapshot that says active.
C19_InactiveAgentSkipped ==
    [][\A t \in Ticks :
        LET run  == executor.run[t]
            run2 == executor'.run[t]
        IN  /\ ( /\ run.pc = "info"
                 /\ run2 # run
                 /\ ~agent[run.agents[run.i]].isActive ) =>
                   /\ run2.pc \in {"info", "idle"}
                   /\ run2.pc = "info" => run2.i = run.i + 1
                   /\ LastLog(run2).agent = run.agents[run.i]
                   /\ LastLog(run2).result = "inactive"
                   /\ Len(run2.log) = Len(run.log) + 1
                   /\ agent' = agent
            /\ ( /\ run.pc \in {"memories", "openai", "storeResponse", "storeMemory"}
                 /\ run2 # run ) => run.info.isActive
            /\ run2.pc \in {"memories", "openai", "storeResponse", "storeMemory"} =>
                   run2.info.isActive
      ]_vars

\* An agent that had been executed and was then switched off has just been
\* skipped as inactive.
C19_Witness ==
    \E t \in Ticks :
        LET run == executor.run[t]
        IN  /\ run.pc = "idle"
            /\ run.log # <<>>
            /\ LastLog(run).result = "inactive"
            /\ lastOp.op = "getAgentInfo"
            /\ agent[LastLog(run).agent].executionCount > 0
            /\ ~agent[LastLog(run).agent].isActive

\* C20: with an active snapshot executeAgent goes on to the execution exactly
\* when executionCount is 0 or at least minInterval seconds separate the
\* clock from lastExecutionTime, minInterval itself included; otherwise it
\* logs that it is waiting and returns.
C20_DuePolicy ==
    [][\A t \in Ticks :
        LET run  == executor.run[t]
            run2 == executor'.run[t]
            a    == run.agents[run.i]
        IN  ( /\ run.pc = "info"
              /\ run2 # run
              /\ agent[a].isActive ) =>
                /\ run2.pc = "memories" <=>
                       \/ agent[a].executionCount = 0
                       \/ now - agent[a].lastExecutionTime >= minInterval
                /\ run2.pc # "memories" =>
                       /\ LastLog(run2).agent = a
                       /\ LastLog(run2).result = "waiting"
                       /\ agent' = agent
      ]_vars

\* An agent executed before is taken as due exactly minInterval seconds
\* after its last execution.
C20_Witness ==
    \E t \in Ticks :
        LET run == executor.run[t]
        IN  /\ run.pc = "memories"
            /\ Number(run.info.execCount) > 0
            /\ now - Number(run.info.lastExecution) = minInterval

\* No call of executeAgents or executeAgent is in flight.
ExecutorIdle == \A t \in Ticks : executor.run[t].pc = "idle"

\* The agents a tick has to go through: the registry, up to the page size.
TickPage == SubSeq(agentFactory.agents, 1, Min(Len(agentFactory.agents), PageSize))

\* Agent a is one the executor would execute now: active and not waiting.
DueNow(a) == AfterSnapshot(DecodeAgentInfo(getAgentInfo(agent[a]).ret), now) = "execute"

\* C21: an agent whose reasoning call failed was sent no storeResponse and no
\* storeMemory, and holds the lastResponse, executionCount, lastExecutionTime
\* and memories of its snapshot; an agent whose execution completed has its
\* executionCount one above its snapshot; and a tick does not end while an
\* agent of its page that the executor's wallet owns is still due.
C21_ReasoningFailureIsolated ==
    /\ \A t \in Ticks :
           \A k \in 1..Len(executor.run[t].log) :
               LET e == executor.run[t].log[k]
               IN  /\ e.err = "OpenAI request failed" =>
                          /\ e.response = ""
                          /\ agent[e.agent].lastResponse = e.info.lastResponse
                          /\ agent[e.agent].executionCount = Number(e.info.execCount)
                          /\ agent[e.agent].lastExecutionTime = Number(e.info.lastExecution)
                          /\ Len(agent[e.agent].memories) = Number(e.info.memoryCount)
                   /\ e.result = "completed" =>
                          agent[e.agent].executionCount = Number(e.info.execCount) + 1
    /\ (lastOp.op = "executeAgents" /\ ExecutorIdle) =>
           \A k \in 1..Len(TickPage) :
               ~(DueNow(TickPage[k]) /\ agent[TickPage[k]].owner = WALLET)

\* C22: while executeAgents goes through its page every agent before the
\* current one has its line in the log, whatever happened to it, and a tick
\* that has ended has gone through every agent of its page.
C22_FailureDoesNotStopTick ==
    /\ \A t \in Ticks :
           LET run == executor.run[t]
           IN  run.pc # "idle" =>
                   /\ Len(run.log) = run.i - 1
                   /\ \A k \in 1..Len(run.log) : run.log[k].agent = run.agents[k]
    /\ (lastOp.op = "executeAgents" /\ ExecutorIdle) =>
           \A k \in 1..Len(TickPage) :
               \E t \in Ticks : \E j \in 1..Len(executor.run[t].log) :
                   executor.run[t].log[j].agent = TickPage[k]

\* C24: a tick over a registry of N agents, N within the scan size,
\* examines all N of them: once executeAgents has read the registry it
\* iterates over every agent of the registry, in order.
C24_TickExaminesEveryAgent ==
    (lastOp.op = "executeAgents" /\ Len(agentFactory.agents) > 0) =>
        \E t \in Ticks :
            /\ executor.run[t].pc = "info"
            /\ executor.run[t].agents = agentFactory.agents

\* C23: no result commit takes effect on an agent while its isActive flag
\* is false: an accepted storeResponse finds the agent active, whatever the
\* owner's setActive calls did between the executor's snapshot and the commit.
C23_NoCommitWhileInactive ==
    \A a \in AgentAddrs : Did("storeResponse", a) => agent[a].isActive

\* The snapshot AgentXUtils.getAgentInfo has just returned, if the last
\* step returned one.
ReturnedSnapshot == lastOp.op = "AgentXUtils.getAgentInfo" /\ lastOp.ok

\* C25: the snapshot returned by AgentXUtils.getAgentInfo always has as many
\* memories as its memoryCount says, storeMemory calls confirmed while the
\* snapshot is being read included.
C25_SnapshotMemoryCount ==
    ReturnedSnapshot => Len(lastOp.ret[1].memories) = lastOp.ret[1].memoryCount

\* The execution history the route has just answered with, and the memories
\* of the agent at that moment.
ReturnedExecutions == lastOp.op = "executions" /\ lastOp.ok
ExecutionMemories ==
    {k \in 1..Len(agent[lastOp.agent].memories) :
        LET key == agent[lastOp.agent].memories[k].key
        IN  Len(key) >= 10 /\ SubSeq(key, 1, 10) = "execution_"}

\* C28: the execution history holds exactly the memories whose key starts
\* with "execution_", one entry each, ordered by timestamp descending; an
\* entry exposes the key's suffix after the prefix, the stored value and
\* the timestamp.
C28_ExecutionHistory ==
    ReturnedExecutions =>
        LET E == lastOp.ret
            M == agent[lastOp.agent].memories
        IN  /\ Len(E) = Cardinality(ExecutionMemories)
            /\ \A i, j \in 1..Len(E) : i < j => E[i].timestamp >= E[j].timestamp
            /\ \A k \in ExecutionMemories : \E i \in 1..Len(E) :
                   /\ E[i].executionNumber = SubSeq(M[k].key, 11, Len(M[k].key))
                   /\ E[i].result = M[k].value
                   /\ E[i].timestamp = M[k].timestamp
            /\ \A i \in 1..Len(E) : \E k \in ExecutionMemories :
                   /\ E[i].executionNumber = SubSeq(M[k].key, 11, Len(M[k].key))
                   /\ E[i].result = M[k].value
                   /\ E[i].timestamp = M[k].timestamp

\* An execution history of two entries with different timestamps, the later
\* stored first in the memories, next to a memory under another key.
C28_Witness ==
    /\ ReturnedExecutions
    /\ Len(lastOp.ret) = 2
    /\ lastOp.ret[1].timestamp > lastOp.ret[2].timestamp
    /\ lastOp.ret[1].executionNumber = "0"
    /\ Len(agent[lastOp.agent].memories) = 3
    /\ agent[lastOp.agent].memories[1].key = "execution_1"
    /\ agent[lastOp.agent].memories[2].key = "k1"

\* C26: after any number k of saved data points the history holds the most
\* recent min(k, 1000) of them, in the order they were appended: never more
\* than 1000, and when the cap is passed the oldest are the ones dropped.
C26_HistoryIsMostRecent ==
    LET history == monitor.history
        k       == monitor.saved
    IN  /\ Len(history) <= HistoryCap
        /\ Len(history) = Min(k, HistoryCap)
        /\ \A j \in 1..Len(history) :
               history[j].timestamp = ScanTime(k - Len(history) + j)

\* More data points were saved than the history keeps.
C26_Witness ==
    /\ monitor.saved = HistoryCap + 2
    /\ Len(monitor.history) = HistoryCap
    /\ monitor.history[1].timestamp = ScanTime(3)

\* C27: an error thrown while one agent is read or health-checked never
\* aborts the scan: a scan that has its page ends only after its last
\* agent, errors or not, and ends by saving its data point.
C27_ScanSurvivesAgentError ==
    LET scan == monitor.scan
    IN  /\ scan.outcome = "aborted" => scan.errors = <<>> /\ scan.agents = <<>>
        /\ scan.pc = "agent" => scan.i \in 1..Len(scan.agents) /\ Len(scan.errors) < scan.i
        /\ (scan.pc = "idle" /\ scan.agents # <<>>) =>
               /\ scan.outcome = "saved"
               /\ scan.i = Len(scan.agents)
               /\ monitor.history # <<>>
               /\ monitor.history[Len(monitor.history)] = DataPoint(scan)

\* A scan of two agents is over: the check of the first threw, the second
\* was counted and the data point is in the history.
C27_Witness ==
    /\ monitor.scan.pc = "idle"
    /\ Len(monitor.scan.agents) = 2
    /\ monitor.scan.errors = <<monitor.scan.agents[1]>>
    /\ monitor.scan.outcome = "saved"
    /\ monitor.history[Len(monitor.history)].activeAgents = 1
    /\ monitor.history[Len(monitor.history)].totalAgents = 2

\* s is a timestamp as toISOString writes it: YYYY-MM-DDTHH:MM:SS.sssZ.
IsISO8601(s) ==
    /\ Len(s) = 24
    /\ SubSeq(s, 5, 5) = "-" /\ SubSeq(s, 8, 8) = "-" /\ SubSeq(s, 11, 11) = "T"
    /\ SubSeq(s, 14, 14) = ":" /\ SubSeq(s, 17, 17) = ":" /\ SubSeq(s, 20, 20) = "."
    /\ SubSeq(s, 24, 24) = "Z"
    /\ \A k \in (1..23) \ {5, 8, 11, 14, 17, 20} :
           SubSeq(s, k, k) \in {"0", "1", "2", "3", "4", "5", "6", "7", "8", "9"}

\* C29: for a due agent whose reasoning call succeeded the executor sends
\* the memory only once its commit is confirmed (the agent then holds the
\* response, with executionCount one above the snapshot's); the memory's key
\* is "execution_" followed by the snapshot's executionCount and its value is
\* an ISO-8601 timestamp followed by at most the first 200 characters of
\* the response.
C29_CommitThenMemory ==
    /\ \A t \in Ticks :
           LET run == executor.run[t]
               a   == run.agents[run.i]
           IN  /\ run.pc = "storeResponse" =>
                      ExecutionKey(run.info.execCount) \notin KeysOf(agent[a].memories)
               /\ run.pc = "storeMemory" =>
                      /\ agent[a].lastResponse = run.response
                      /\ agent[a].executionCount = Number(run.info.execCount) + 1
    /\ \A a \in AgentAddrs : (Did("storeMemory", a) /\ lastOp.sender = WALLET) =>
           LET value    == lastOp.args.value
               response == agent[a].lastResponse
               text     == SubSeq(value, 27, Len(value))
           IN  /\ lastOp.args.key = "execution_" \o ToString(agent[a].executionCount - 1)
               /\ IsISO8601(SubSeq(value, 1, 24))
               /\ SubSeq(value, 25, 26) = ": "
               /\ Len(text) <= 200
               /\ text = SubSeq(response, 1, Min(Len(response), 200))

\* The executor has stored the memory of a response of more than 200
\* characters.
C29_Witness ==
    \E a \in AgentAddrs :
        /\ Did("storeMemory", a)
        /\ lastOp.sender = WALLET
        /\ Len(agent[a].lastResponse) > 200
        /\ Len(lastOp.args.value) = 226
        /\ lastOp.args.key = "execution_0"

\* C30: two distinct successful commits never write the same
\* "execution_<n>" key: a memory the executor stores after a commit goes
\* under a key the agent does not hold yet, so no entry of the execution
\* history is overwritten, whatever the overlap of the runs and the commits
\* of the owner.
C30_ExecutionKeysNeverReused ==
    [][\A a \in AgentAddrs :
        (lastOp'.op = "storeMemory" /\ lastOp'.ok /\ lastOp'.agent = a) =>
            lastOp'.args.key \notin KeysOf(agent[a].memories)]_vars

\* C39: the key-to-slot index agrees with the memory sequence after every
\* sequence of storeMemory calls: the entry at (0-based) position i has
\* memoryIndex[key] = i + 1, memoryIndex[key] is 0 exactly for the keys never
\* stored, and so the linear scan taken when the index is 0 and memories is
\* not empty finds no entry and the call appends.
C39_IndexMatchesMemories ==
    \A a \in AgentAddrs :
        LET mems == agent[a].memories
        IN  /\ \A p \in 1..Len(mems) : MapGet(agent[a].memoryIndex, mems[p].key) = p
            /\ \A k \in Keys :
                   MapGet(agent[a].memoryIndex, k) = 0 <=> k \notin DOMAIN lastStore[a]
            /\ \A k \in Keys :
                   (MapGet(agent[a].memoryIndex, k) = 0 /\ Len(mems) > 0) =>
                       /\ FindKey(mems, k) = 0
                       /\ storeMemory(agent[a], agent[a].owner, k, "v1", now).st.memories
                              = Append(mems, [key |-> k, value |-> "v1", timestamp |-> now])

\* Two keys are stored and the last call went through the scan branch: it
\* stored a key the index did not hold while memories was not empty.
C39_Witness ==
    \E a \in AgentAddrs :
        /\ Did("storeMemory", a)
        /\ Len(agent[a].memories) = 2
        /\ lastOp.args.key = agent[a].memories[2].key
        /\ agent[a].memoryIndex[agent[a].memories[1].key] = 1
        /\ agent[a].memoryIndex[agent[a].memories[2].key] = 2

\* C34: executionCount never decreases and changes only through an accepted
\* storeResponse, which raises it by one: updateGoal, setActive, storeMemory,
\* transferOwnership and every rejected call leave executionCount,
\* lastExecutionTime and lastResponse as they were.
C34_OnlyCommitsCount ==
    [][\A a \in AgentAddrs :
        LET committed == lastOp'.op = "storeResponse" /\ lastOp'.ok /\ lastOp'.agent = a
        IN  /\ agent'[a].executionCount >= agent[a].executionCount
            /\ committed => agent'[a].executionCount = agent[a].executionCount + 1
            /\ ~committed =>
                   /\ agent'[a].executionCount = agent[a].executionCount
                   /\ agent'[a].lastExecutionTime = agent[a].lastExecutionTime
                   /\ agent'[a].lastResponse = agent[a].lastResponse]_vars

\* After a commit, in a later block, the owner has switched the agent off
\* and the counter still stands at 1.
C34_Witness ==
    \E a \in AgentAddrs :
        /\ Did("setActive", a)
        /\ ~agent[a].isActive
        /\ agent[a].executionCount = 1
        /\ agent[a].lastExecutionTime < now

\* C37: every scan that runs appends exactly one data point to the history,
\* the scan of a registry with no agents included, whose data point records
\* totalAgents = 0: once the scans begun are over, as many data points are
\* saved as scans were begun, and the last one is that of the last scan.
C37_EveryScanSaves ==
    (monitor.scan.pc = "idle" /\ monitor.scans > 0) =>
        /\ monitor.saved = monitor.scans
        /\ Len(monitor.history) = monitor.scans
        /\ monitor.history[Len(monitor.history)].totalAgents = Len(agentFactory.agents)
        /\ monitor.history[Len(monitor.history)].timestamp = monitor.scan.currentTime

\* The value getMonitoringStats has just returned, and the positions of the
\* history whose data point is less than `window` seconds older than the
\* latest one.
ReturnedStats == lastOp.op = "getMonitoringStats"
StatsWindow(window) ==
    {j \in 1..Len(monitor.history) :
        monitor.history[Len(monitor.history)].timestamp - monitor.history[j].timestamp
            < window}

\* C38: getMonitoringStats returns a value for every stored history: the
\* explicit error value for an empty one and statistics otherwise, in which
\* the hourly and the daily window each hold the latest data point, the
\* hourly window lies within the daily one, each dataPoints is the size of
\* its window, and so no average is taken over an empty window.
C38_StatsWindows ==
    ReturnedStats =>
        LET stats == lastOp.ret[1]
        IN  /\ lastOp.ok
            /\ monitor.history = <<>> => DOMAIN stats = {"error"}
            /\ monitor.history # <<>> =>
                   /\ DOMAIN stats = {"current", "hourly", "daily", "history"}
                   /\ stats.current = monitor.history[Len(monitor.history)]
                   /\ Len(monitor.history) \in StatsWindow(3600)
                   /\ StatsWindow(3600) \subseteq StatsWindow(86400)
                   /\ stats.hourly.dataPoints = Cardinality(StatsWindow(3600))
                   /\ stats.daily.dataPoints = Cardinality(StatsWindow(86400))
                   /\ stats.hourly.dataPoints >= 1
                   /\ stats.hourly.avgActiveAgents.den # 0
                   /\ stats.daily.avgActiveAgents.den # 0

\* Statistics over a history whose hourly window holds the latest data
\* point only and whose daily window leaves an older data point out.
C38_Witness ==
    /\ ReturnedStats
    /\ Len(monitor.history) >= 3
    /\ lastOp.ret[1].hourly.dataPoints = 1
    /\ lastOp.ret[1].daily.dataPoints = 2
    /\ lastOp.ret[1].daily.avgActiveAgents = [num |-> 2, den |-> 2]

\* C35: once stop() has been called no further tick is started: the
\* periodic job does not call executeAgents again.
C35_NoTickAfterStop ==
    [][~executor.isRunning => lastOp'.op # "executeAgents"]_vars

\* C36: every run eventually completes whatever happens to a single agent:
\* a call that never returns is cut off and treated as a failure, so a run
\* that has started is in time over.
C36_RunCompletes ==
    \A t \in OneTick : (executor.run[t].pc # "idle") ~> (executor.run[t].pc = "idle")

C31_ReasoningCallsSpaced ==
    [][\A t1, t2 \in Ticks :
        ( /\ t1 # t2
          /\ lastOp.op = "getAllMemories"
          /\ executor.run[t1].pc = "openai"
          /\ executor.run[t2].pc = "memories"
          /\ executor'.run[t2].pc = "openai"
          /\ executor.run[t1].agents[executor.run[t1].i]
                 = executor.run[t2].agents[executor.run[t2].i]
          /\ Number(executor.run[t1].info.execCount) > 0
          /\ Number(executor.run[t2].info.execCount) > 0 )
        => now' - now >= minInterval]_vars

\* C32: the state machine of an agent under the scheduler. After a commit at
\* time t an active agent is not due before t + minInterval and is due from
\* then on; after a failed attempt (the reasoning call failed or the commit
\* was rejected) an agent that is still active is still due; and a tick
\* retries: a tick that is over has made an attempt on every active due
\* agent of its page.
C32_AgentStateMachine ==
    /\ \A a \in AgentAddrs :
           (agent[a].isActive /\ agent[a].executionCount > 0) =>
               (DueNow(a) <=> now >= agent[a].lastExecutionTime + minInterval)
    /\ \A t \in Ticks :
           LET run == executor.run[t]
           IN  (run.pc = "idle" /\ run.log # <<>> /\ LastLog(run).result = "error"
                   /\ LastLog(run).agent # 0 /\ agent[LastLog(run).agent].isActive) =>
                   DueNow(LastLog(run).agent)
    /\ (lastOp.op = "executeAgents" /\ ExecutorIdle) =>
           \A k \in 1..Len(TickPage) :
               DueNow(TickPage[k]) =>
                   \E t \in Ticks : \E j \in 1..Len(executor.run[t].log) :
                       /\ executor.run[t].log[j].agent = TickPage[k]
                       /\ executor.run[t].log[j].result \in {"completed", "error"}

====
